---- MODULE Spec2Model ----
(***************************************************************************)
(* A model of src/jarvis/jarvis.py: the <think>...</think> tag extractor   *)
(* of ModelChain.get_ollama_deepseek_reasoning, fed one stream fragment at *)
(* a time (ExtractSpec), and the interactive session of main() with its    *)
(* three message logs, model selector and flags (Spec).                    *)
(* Python strings are TLA+ strings, used as sequences of characters.       *)
(***************************************************************************)
EXTENDS Integers, Sequences, FiniteSets, TLC

\* ---------------------------------------------------------------- bounds
\* A streamed text is a concatenation of at most MaxPieces pieces.
MaxPieces == 4
\* A session runs at most MaxTurns user turns.
MaxTurns == 2
\* A reasoning call takes at most MaxElapsed eighths of a second.
MaxElapsed == 1040

\* ------------------------------------------------------ program constants
OLLAMA_MODEL == "qwen2.5:14b"
OPENROUTER_MODEL == "openai/gpt-4o-mini"
DEEPSEEK_MODEL == "deepseek-reasoner"
OLLAMA_DEEPSEEK == "deepseek-r1:14b"
OPEN_TAG == "<think>"
CLOSE_TAG == "</think>"
SENTINEL == "Error occurred while streaming response"
LOCAL_PREFIX == "ollama:"
DEEPSEEK_PREFIX == "ollama:deepseek"

\* ------------------------------------------------- Python string helpers
\* p in s
Contains(s, p) ==
  \E i \in 0..(Len(s) - Len(p)) : SubSeq(s, i + 1, i + Len(p)) = p

\* s.find(p): the 0-based index of the first occurrence, -1 when absent
Find(s, p) ==
  IF Contains(s, p)
  THEN CHOOSE i \in 0..(Len(s) - Len(p)) :
         /\ SubSeq(s, i + 1, i + Len(p)) = p
         /\ \A j \in 0..(i - 1) : SubSeq(s, j + 1, j + Len(p)) # p
  ELSE -1

\* s.startswith(p)
StartsWith(s, p) == Len(s) >= Len(p) /\ SubSeq(s, 1, Len(p)) = p

\* s.strip(), for the blanks a typed line can carry
RECURSIVE Strip(_)
Strip(s) ==
  IF s = "" THEN s
  ELSE IF Head(s) = " " THEN Strip(Tail(s))
  ELSE IF SubSeq(s, Len(s), Len(s)) = " " THEN Strip(SubSeq(s, 1, Len(s) - 1))
  ELSE s

\* s[n:] and s[:n] for 0 <= n
SliceFrom(s, n) == SubSeq(s, n + 1, Len(s))
SliceTo(s, n) == SubSeq(s, 1, IF n < Len(s) THEN n ELSE Len(s))

\* ------------------------------------------------------ the tag extractor
\* The loop-carried locals of get_ollama_deepseek_reasoning before the
\* first fragment.
AccInit ==
  [current_chunk |-> "", reasoning_content |-> "",
   has_started_think |-> FALSE, closed |-> FALSE]

\* Lines 150-158: append the fragment to the pending buffer; on the first
\* sight of the opening tag drop everything through it and emit the tag.
OpenStep_NoTag(acc, content) ==
  LET cc == acc.current_chunk \o content
  IN IF ~acc.has_started_think /\ Contains(cc, OPEN_TAG)
     THEN [acc EXCEPT !.has_started_think = TRUE,
                      !.current_chunk = SliceFrom(cc, Find(cc, OPEN_TAG) + 7)]
     ELSE [acc EXCEPT !.current_chunk = cc]

OpenStep(acc, content) ==
  LET cc == acc.current_chunk \o content
  IN IF ~acc.has_started_think /\ Contains(cc, OPEN_TAG)
     THEN [acc EXCEPT !.has_started_think = TRUE,
                      !.current_chunk = SliceFrom(cc, Find(cc, OPEN_TAG) + 7),
                      !.reasoning_content = @ \o OPEN_TAG]
     ELSE [acc EXCEPT !.current_chunk = cc]

\* Lines 160-173: once started, look for the closing tag in the pending
\* buffer; emit through it and stop, or emit the whole buffer and clear it.
CloseStep_Unguarded(acc) ==
  IF Contains(acc.current_chunk, CLOSE_TAG)
  THEN [acc EXCEPT !.reasoning_content =
                     @ \o SliceTo(acc.current_chunk,
                                  Find(acc.current_chunk, CLOSE_TAG))
                       \o CLOSE_TAG,
                   !.closed = TRUE]
  ELSE [acc EXCEPT !.reasoning_content = @ \o acc.current_chunk,
                   !.current_chunk = ""]

CloseStep(acc) ==
  IF ~acc.has_started_think THEN acc
  ELSE IF Contains(acc.current_chunk, CLOSE_TAG)
       THEN [acc EXCEPT !.reasoning_content =
                          @ \o SliceTo(acc.current_chunk,
                                       Find(acc.current_chunk, CLOSE_TAG))
                            \o CLOSE_TAG,
                        !.closed = TRUE]
       ELSE [acc EXCEPT !.reasoning_content = @ \o acc.current_chunk,
                        !.current_chunk = ""]

\* One iteration of the loop body on a decoded fragment `content`.
Feed(acc, content) == CloseStep(OpenStep(acc, content))

\* The whole loop over a list of fragments: stops at the break.
RECURSIVE FeedAll(_, _)
FeedAll(acc, frags) ==
  IF frags = <<>> \/ acc.closed THEN acc
  ELSE FeedAll(Feed(acc, Head(frags)), Tail(frags))

\* ------------------------------------------------------------------ state
VARIABLES
  \* ModelChain fields
  has_official_deepseek, has_openrouter,
  deepseek_messages, openrouter_messages, ollama_messages,
  current_model, show_reasoning, use_ollama_deepseek,
  \* main(): position in the loop and its locals
  pc, user_input, reasoning, response,
  \* what the last step did and whether set_model printed its warning
  event, warned,
  \* the last request sent to a backend
  request,
  \* turns started so far, and since the last clear
  turns, turns_since_clear,
  \* one call of get_ollama_deepseek_reasoning: the text the server streams,
  \* how much of it has been delivered, the loop's locals, the call's state
  stream_text, stream_pos, acc, rpc, result,
  \* the kind of the last line iter_lines yielded
  line,
  \* the time a reasoning call took, in eighths of a second, and the label
  \* printed for it
  elapsed_time, time_str

chainVars == <<has_official_deepseek, has_openrouter, deepseek_messages,
               openrouter_messages, ollama_messages, current_model,
               show_reasoning, use_ollama_deepseek>>
mainVars == <<pc, user_input, reasoning, response, event, warned, turns,
              turns_since_clear, request>>
streamVars == <<stream_text, stream_pos, acc, rpc, result, line>>
labelVars == <<elapsed_time, time_str>>
vars == <<chainVars, mainVars, streamVars, labelVars>>

\* ModelChain.__init__ for each combination of configured credentials.
ChainInit ==
  /\ has_official_deepseek \in BOOLEAN
  /\ has_openrouter \in BOOLEAN
  /\ deepseek_messages = <<>>
  /\ openrouter_messages = <<>>
  /\ ollama_messages = <<>>
  /\ current_model = (IF ~has_openrouter THEN OLLAMA_MODEL ELSE OPENROUTER_MODEL)
  /\ show_reasoning = TRUE
  /\ use_ollama_deepseek = ~has_official_deepseek

\* ------------------------------------------------------------ the requests
UserMsg(text) == [role |-> "user", content |-> text]
AssistantMsg(text) == [role |-> "assistant", content |-> text]
SystemMsg(text) == [role |-> "system", content |-> text]

\* s.replace(p, "")
RECURSIVE Remove(_, _)
Remove(s, p) ==
  IF ~Contains(s, p) THEN s
  ELSE SliceTo(s, Find(s, p)) \o Remove(SliceFrom(s, Find(s, p) + Len(p)), p)

\* the prompt both response strategies build
CombinedPrompt_NoReasoning(user, reason) ==
  "<question>" \o user \o "</question>\n\n" \o "\n\n"

CombinedPrompt(user, reason) ==
  "<question>" \o user \o "</question>\n\n" \o reason \o "\n\n"

NoRequest == [backend |-> "none", call |-> "none", model |-> "", messages |-> <<>>]

\* client.chat.completions.create(model=DEEPSEEK_MODEL, messages=log)
HostedReasoningRequest(log) ==
  [backend |-> "deepseek", call |-> "reasoning", model |-> DEEPSEEK_MODEL,
   messages |-> log]

\* requests.post(.../chat) with the two messages built at lines 124-127
LocalReasoningRequest(user) ==
  [backend |-> "ollama", call |-> "reasoning",
   model |-> Remove(OLLAMA_DEEPSEEK, LOCAL_PREFIX),
   messages |->
     <<SystemMsg("You are a helpful assistant that thinks step by step. Format your response as: <think>your step by step reasoning</think> and stop immediately after closing the think tag."),
       UserMsg("Analyze this request step by step:\n" \o user)>>]

\* client.chat.completions.create(model=current_model, messages=log)
HostedResponseRequest(model, log) ==
  [backend |-> "openrouter", call |-> "response", model |-> model,
   messages |-> log]

\* requests.post(.../chat) with the two messages built at lines 238-241
LocalResponseRequest(model, user, reason) ==
  [backend |-> "ollama", call |-> "response",
   model |-> Remove(model, LOCAL_PREFIX),
   messages |->
     <<SystemMsg("You are a helpful assistant that provides clear and concise answers."),
       UserMsg(CombinedPrompt(user, reason))>>]

\* -------------------------------------- the extractor, fragment by fragment
Pieces == {"a", "</", OPEN_TAG, CLOSE_TAG}

RECURSIVE TextsOf(_)
TextsOf(n) ==
  IF n = 0 THEN {""}
  ELSE LET T == TextsOf(n - 1) IN T \cup {t \o p : t \in T, p \in Pieces}

Texts == TextsOf(MaxPieces)

\* The part of the stream delivered so far, and the part still to come.
Delivered == SliceTo(stream_text, stream_pos)

\* A first turn of a session with no hosted-reasoning credential has called
\* get_ollama_deepseek_reasoning.
ExtractInit ==
  /\ ChainInit
  /\ ~has_official_deepseek
  /\ pc = "reasoning" /\ user_input = "hi" /\ reasoning = "" /\ response = ""
  /\ event = "read" /\ warned = FALSE /\ turns = 1 /\ turns_since_clear = 1
  /\ request = LocalReasoningRequest(user_input)
  /\ stream_text \in Texts
  /\ stream_pos = 0
  /\ acc = AccInit
  /\ rpc = "iter"
  /\ result = ""
  /\ line = "none"
  /\ elapsed_time = 0 /\ time_str = ""

\* iter_lines yields a line whose message.content is the next k characters.
Chunk(k) ==
  /\ rpc = "iter"
  /\ k \in 1..(Len(stream_text) - stream_pos)
  /\ LET next == Feed(acc, SubSeq(stream_text, stream_pos + 1, stream_pos + k))
     IN /\ acc' = next
        /\ stream_pos' = stream_pos + k
        /\ IF next.closed
           THEN rpc' = "returned" /\ result' = next.reasoning_content
           ELSE rpc' = rpc /\ result' = result
  /\ line' = "content"
  /\ UNCHANGED <<stream_text, chainVars, mainVars, labelVars>>

\* What lines 145-176 do with a line that carries no usable fragment:
\*   bad_json     not JSON: json.loads raises JSONDecodeError, caught at 175
\*   no_message   JSON with no "message" key holding "content": the test at
\*                148 is false
\*   bad_utf8     not UTF-8: line.decode() raises UnicodeDecodeError, which
\*                the handler at 175 does not name
\*   bad_message  JSON whose message or content is not of the expected type:
\*                the test at 148 or the += at 150 raises TypeError
MalformedKinds == {"bad_json", "no_message", "bad_utf8", "bad_message"}

LineEffect(kind) ==
  IF kind \in {"bad_json", "no_message"} THEN "skip" ELSE "raise"

\* iter_lines yields a malformed line.
MalformedLine(kind) ==
  /\ rpc = "iter"
  /\ line' = kind
  /\ IF LineEffect(kind) = "skip"
     THEN UNCHANGED <<rpc, result>>
     ELSE rpc' = "raised" /\ result' = SENTINEL
  /\ UNCHANGED <<stream_text, stream_pos, acc, chainVars, mainVars, labelVars>>

\* The server has sent everything: the loop ends and the text is returned.
StreamEnd ==
  /\ rpc = "iter"
  /\ stream_pos = Len(stream_text)
  /\ rpc' = "returned"
  /\ result' = acc.reasoning_content
  /\ line' = "eof"
  /\ UNCHANGED <<stream_text, stream_pos, acc, chainVars, mainVars, labelVars>>

\* requests.post or iter_lines raises: the outer except returns the sentinel.
StreamFault ==
  /\ rpc = "iter"
  /\ rpc' = "raised"
  /\ result' = SENTINEL
  /\ line' = "transport"
  /\ UNCHANGED <<stream_text, stream_pos, acc, chainVars, mainVars, labelVars>>

ExtractNext ==
  \/ \E k \in 1..(MaxPieces * 8) : Chunk(k)
  \/ \E kind \in MalformedKinds : MalformedLine(kind)
  \/ StreamEnd
  \/ StreamFault

ExtractSpec == ExtractInit /\ [][ExtractNext]_vars

\* --------------------------------------------------- the elapsed-time label
\* Times are counted in eighths of a second, which are exact as Python
\* floats. str(n) for n >= 0:
Digit(d) == SubSeq("0123456789", d + 1, d + 1)

RECURSIVE Dec(_)
Dec(n) == IF n < 10 THEN Digit(n) ELSE Dec(n \div 10) \o Digit(n % 10)

\* f"{x:.1f}" for x = tenths / 10
Fixed1(tenths) == Dec(tenths \div 10) \o "." \o Digit(tenths % 10)

\* The tenths that ".1f" can print for the float num / den: the nearest
\* tenth. Half-way cases go to the even tenth when the float holds the
\* quotient exactly (den = 8, or a quotient that is a multiple of 1/4);
\* otherwise the float lies just above or just below the half-way point,
\* and either neighbour can be printed.
Tenths(num, den) ==
  LET q == (10 * num) \div den
      r == (10 * num) % den
  IN IF 2 * r < den THEN {q}
     ELSE IF 2 * r > den THEN {q + 1}
     ELSE IF den = 8 \/ (2 * q + 1) % 5 = 0
          THEN {IF q % 2 = 0 THEN q ELSE q + 1}
          ELSE {q, q + 1}

\* lines 106-110 and 182-186: the label for an elapsed time of e eighths
TimeLabels_StrictThreshold(e) ==
  IF e > 60 * 8
  THEN {Fixed1(t) \o " minutes" : t \in Tenths(e, 60 * 8)}
  ELSE {Fixed1(t) \o " seconds" : t \in Tenths(e, 8)}

TimeLabels(e) ==
  IF e >= 60 * 8
  THEN {Fixed1(t) \o " minutes" : t \in Tenths(e, 60 * 8)}
  ELSE {Fixed1(t) \o " seconds" : t \in Tenths(e, 8)}

\* A reasoning call of a first turn has drained its stream after
\* elapsed_time eighths of a second.
LabelInit ==
  /\ ChainInit
  /\ pc = "reasoning" /\ user_input = "hi" /\ reasoning = "" /\ response = ""
  /\ event = "read" /\ warned = FALSE /\ turns = 1 /\ turns_since_clear = 1
  /\ request = (IF ~has_official_deepseek \/ use_ollama_deepseek
                THEN LocalReasoningRequest(user_input)
                ELSE HostedReasoningRequest(<<UserMsg(user_input)>>))
  /\ stream_text = "" /\ stream_pos = 0 /\ acc = AccInit /\ rpc = "idle"
  /\ result = "" /\ line = "none"
  /\ elapsed_time \in 0..MaxElapsed
  /\ time_str = ""

\* time_str is built and printed.
TimeLabel ==
  /\ time_str = ""
  /\ time_str' \in TimeLabels(elapsed_time)
  /\ UNCHANGED <<chainVars, mainVars, streamVars, elapsed_time>>

LabelNext == TimeLabel

LabelSpec == LabelInit /\ [][LabelNext]_vars

\* ------------------------------------------------------------ the session
RECURSIVE Concat(_)
Concat(pieces) ==
  IF pieces = <<>> THEN "" ELSE Head(pieces) \o Concat(Tail(pieces))

\* What the user can type as a turn, ask for as a model, and what the
\* backends can stream back.
UserTexts == {"explain X", "hi"}
Selectors == {"gpt-x", "ollama:llama3", "ollama:deepseek-r1:14b"}
ModelLines == {"model " \o s : s \in Selectors} \cup {"model  gpt-x "}
LocalReasoningStreams ==
  { <<"<th", "ink>because Y</thi", "nk>", " done">> }
HostedReasoningStreams ==
  { <<[reasoning_content |-> "because", content |-> ""],
      [reasoning_content |-> " Y", content |-> ""],
      [reasoning_content |-> "", content |-> "X"]>> }
ResponseStreams == { <<"X is", " Y">> }

Init ==
  /\ ChainInit
  /\ pc = "prompt" /\ user_input = "" /\ reasoning = "" /\ response = ""
  /\ event = "init" /\ warned = FALSE /\ turns = 0 /\ turns_since_clear = 0
  /\ request = NoRequest
  /\ stream_text = "" /\ stream_pos = 0 /\ acc = AccInit /\ rpc = "idle"
  /\ result = "" /\ line = "none"
  /\ elapsed_time = 0 /\ time_str = ""

\* set_model: the selector, whether the warning is printed, the override flag
SetModelResult_NoCoercion(has_or, model_name) ==
  [current_model |-> model_name,
   warned |-> FALSE,
   use_ollama_deepseek |-> StartsWith(model_name, DEEPSEEK_PREFIX)]

SetModelResult(has_or, model_name) ==
  IF ~has_or /\ ~StartsWith(model_name, LOCAL_PREFIX)
  THEN [current_model |-> OLLAMA_MODEL,
        warned |-> TRUE,
        use_ollama_deepseek |-> StartsWith(model_name, DEEPSEEK_PREFIX)]
  ELSE [current_model |-> model_name,
        warned |-> FALSE,
        use_ollama_deepseek |-> StartsWith(model_name, DEEPSEEK_PREFIX)]

\* get_deepseek_reasoning and get_response: which strategy serves the call
UsesOllamaReasoning_FlagOnly == use_ollama_deepseek

UsesOllamaReasoning == ~has_official_deepseek \/ use_ollama_deepseek

UsesOllamaResponse_PrefixOnly == StartsWith(current_model, LOCAL_PREFIX)

UsesOllamaResponse == ~has_openrouter \/ StartsWith(current_model, LOCAL_PREFIX)

\* the hosted reasoning loop: the reasoning field wins over the content field
RECURSIVE HostedReasoning(_)
HostedReasoning(deltas) ==
  IF deltas = <<>> THEN ""
  ELSE (IF Head(deltas).reasoning_content # ""
        THEN Head(deltas).reasoning_content ELSE "")
       \o HostedReasoning(Tail(deltas))

\* the three logs after the clear command
ClearedLogs_KeepLocal(d, o, l) ==
  [deepseek |-> <<>>, openrouter |-> <<>>, ollama |-> l]

ClearedLogs(d, o, l) ==
  [deepseek |-> <<>>, openrouter |-> <<>>, ollama |-> <<>>]

\* the two appends that end a successful response call
HostedAppend_DropsOldest(d, o, full) ==
  [deepseek |-> Append(d, AssistantMsg(full)),
   openrouter |-> Append(Tail(o), AssistantMsg(full))]

HostedAppend(d, o, full) ==
  [deepseek |-> Append(d, AssistantMsg(full)),
   openrouter |-> Append(o, AssistantMsg(full))]

LocalAppend_OwnLogOnly(d, l, full) ==
  [deepseek |-> d, ollama |-> Append(l, AssistantMsg(full))]

LocalAppend(d, l, full) ==
  [deepseek |-> Append(d, AssistantMsg(full)),
   ollama |-> Append(l, AssistantMsg(full))]

flagVars == <<has_official_deepseek, has_openrouter>>
logVars == <<deepseek_messages, openrouter_messages, ollama_messages>>
modelVars == <<current_model, use_ollama_deepseek, warned>>
localVars == <<user_input, reasoning, response>>
countVars == <<turns, turns_since_clear>>

\* --- the commands of main()
Quit ==
  /\ pc = "prompt"
  /\ pc' = "exit" /\ event' = "quit"
  /\ user_input' = "quit"
  /\ UNCHANGED <<flagVars, logVars, modelVars, show_reasoning, reasoning,
                 response, countVars, request, streamVars,
                 labelVars>>

EndOfInput ==
  /\ pc = "prompt"
  /\ pc' = "exit" /\ event' = "eof"
  /\ UNCHANGED <<flagVars, logVars, modelVars, show_reasoning, localVars,
                 countVars, request, streamVars,
                 labelVars>>

Clear ==
  /\ pc = "prompt"
  /\ LET c == ClearedLogs(deepseek_messages, openrouter_messages,
                          ollama_messages)
     IN /\ deepseek_messages' = c.deepseek
        /\ openrouter_messages' = c.openrouter
        /\ ollama_messages' = c.ollama
  /\ turns_since_clear' = 0
  /\ event' = "clear"
  /\ user_input' = "clear"
  /\ UNCHANGED <<flagVars, modelVars, show_reasoning, reasoning, response,
                 pc, turns, request, streamVars,
                 labelVars>>

\* a line that starts with "model ": the rest, stripped, goes to set_model
SetModel(typed) ==
  /\ pc = "prompt"
  /\ user_input' = Strip(typed)
  /\ LET new_model == Strip(SliceFrom(user_input', 6))
         r == SetModelResult(has_openrouter, new_model)
     IN /\ current_model' = r.current_model
        /\ warned' = r.warned
        /\ use_ollama_deepseek' = r.use_ollama_deepseek
  /\ event' = "set_model"
  /\ UNCHANGED <<flagVars, logVars, show_reasoning, reasoning, response, pc,
                 countVars, request, streamVars,
                 labelVars>>

ToggleReasoning_ResetsOverride ==
  /\ pc = "prompt"
  /\ show_reasoning' = ~show_reasoning
  /\ use_ollama_deepseek' = FALSE
  /\ event' = "toggle"
  /\ user_input' = "reasoning"
  /\ UNCHANGED <<flagVars, logVars, current_model, warned, reasoning, response,
                 pc, countVars, request, streamVars, labelVars>>

ToggleReasoning ==
  /\ pc = "prompt"
  /\ show_reasoning' = ~show_reasoning
  /\ event' = "toggle"
  /\ user_input' = "reasoning"
  /\ UNCHANGED <<flagVars, logVars, modelVars, reasoning, response, pc,
                 countVars, request, streamVars,
                 labelVars>>

\* any other line is a turn
ReadTurn(text) ==
  /\ pc = "prompt"
  /\ turns < MaxTurns
  /\ user_input' = text
  /\ pc' = "reasoning"
  /\ turns' = turns + 1
  /\ turns_since_clear' = turns_since_clear + 1
  /\ event' = "read"
  /\ UNCHANGED <<flagVars, logVars, modelVars, show_reasoning, reasoning,
                 response, request, streamVars,
                 labelVars>>

\* --- the reasoning call of a turn
\* get_official_deepseek_reasoning: the user message is logged, the stream
\* is drained, the reasoning pieces are returned.
OfficialReasoning(deltas) ==
  /\ pc = "reasoning" /\ ~UsesOllamaReasoning
  /\ deepseek_messages' = Append(deepseek_messages, UserMsg(user_input))
  /\ reasoning' = HostedReasoning(deltas)
  /\ pc' = "response" /\ event' = "reasoning_ok"
  /\ request' =
       HostedReasoningRequest(deepseek_messages')
  /\ UNCHANGED <<flagVars, openrouter_messages, ollama_messages, modelVars,
                 show_reasoning, user_input, response, countVars, streamVars,
                 labelVars>>

\* The hosted client raises: nothing in get_official_deepseek_reasoning or
\* in main() catches it, and the process ends with the traceback.
OfficialReasoningFault ==
  /\ pc = "reasoning" /\ ~UsesOllamaReasoning
  /\ deepseek_messages' = Append(deepseek_messages, UserMsg(user_input))
  /\ pc' = "crashed" /\ event' = "reasoning_fault"
  /\ request' =
       HostedReasoningRequest(deepseek_messages')
  /\ UNCHANGED <<flagVars, openrouter_messages, ollama_messages, modelVars,
                 show_reasoning, localVars, countVars, streamVars,
                 labelVars>>

\* get_ollama_deepseek_reasoning on a stream that ends: no log is touched.
OllamaReasoning(frags) ==
  /\ pc = "reasoning" /\ UsesOllamaReasoning
  /\ reasoning' = FeedAll(AccInit, frags).reasoning_content
  /\ pc' = "response" /\ event' = "reasoning_ok"
  /\ request' =
       LocalReasoningRequest(user_input)
  /\ UNCHANGED <<flagVars, logVars, modelVars, show_reasoning, user_input,
                 response, countVars, streamVars,
                 labelVars>>

\* ... and on a stream that raises: the sentinel is the reasoning text.
OllamaReasoningFault ==
  /\ pc = "reasoning" /\ UsesOllamaReasoning
  /\ reasoning' = SENTINEL
  /\ pc' = "response" /\ event' = "reasoning_fault"
  /\ request' =
       LocalReasoningRequest(user_input)
  /\ UNCHANGED <<flagVars, logVars, modelVars, show_reasoning, user_input,
                 response, countVars, streamVars,
                 labelVars>>

\* --- the response call of a turn
OpenrouterResponse(pieces) ==
  /\ pc = "response" /\ ~UsesOllamaResponse
  /\ LET full == Concat(pieces)
         logs == HostedAppend(
                   deepseek_messages,
                   Append(openrouter_messages,
                          UserMsg(CombinedPrompt(user_input, reasoning))),
                   full)
     IN /\ deepseek_messages' = logs.deepseek
        /\ openrouter_messages' = logs.openrouter
        /\ response' = full
  /\ pc' = "prompt" /\ event' = "response_ok"
  /\ request' =
       HostedResponseRequest(
         current_model,
         Append(openrouter_messages,
                UserMsg(CombinedPrompt(user_input, reasoning))))
  /\ UNCHANGED <<flagVars, ollama_messages, modelVars, show_reasoning,
                 user_input, reasoning, countVars, streamVars,
                 labelVars>>

\* The hosted client raises: the combined prompt is already logged, the
\* sentinel is returned before any assistant message is appended.
OpenrouterResponseFault ==
  /\ pc = "response" /\ ~UsesOllamaResponse
  /\ openrouter_messages' =
       Append(openrouter_messages,
              UserMsg(CombinedPrompt(user_input, reasoning)))
  /\ response' = SENTINEL
  /\ pc' = "prompt" /\ event' = "response_fault"
  /\ request' =
       HostedResponseRequest(current_model, openrouter_messages')
  /\ UNCHANGED <<flagVars, deepseek_messages, ollama_messages, modelVars,
                 show_reasoning, user_input, reasoning, countVars, streamVars,
                 labelVars>>

OllamaResponse(pieces) ==
  /\ pc = "response" /\ UsesOllamaResponse
  /\ LET full == Concat(pieces)
         logs == LocalAppend(deepseek_messages, ollama_messages, full)
     IN /\ deepseek_messages' = logs.deepseek
        /\ ollama_messages' = logs.ollama
        /\ response' = full
  /\ pc' = "prompt" /\ event' = "response_ok"
  /\ request' =
       LocalResponseRequest(current_model, user_input, reasoning)
  /\ UNCHANGED <<flagVars, openrouter_messages, modelVars, show_reasoning,
                 user_input, reasoning, countVars, streamVars,
                 labelVars>>

OllamaResponseFault ==
  /\ pc = "response" /\ UsesOllamaResponse
  /\ response' = SENTINEL
  /\ pc' = "prompt" /\ event' = "response_fault"
  /\ request' =
       LocalResponseRequest(current_model, user_input, reasoning)
  /\ UNCHANGED <<flagVars, logVars, modelVars, show_reasoning, user_input,
                 reasoning, countVars, streamVars,
                 labelVars>>

\* --- KeyboardInterrupt, delivered while main() blocks on the prompt or on a
\* network read: main() catches it and goes back to the prompt. At the
\* prompt nothing has been assigned yet, so the step changes nothing.
InterruptAtPrompt ==
  /\ pc = "prompt"
  /\ UNCHANGED vars

InterruptReasoning ==
  /\ pc = "reasoning"
  /\ deepseek_messages' =
       (IF UsesOllamaReasoning THEN deepseek_messages
        ELSE Append(deepseek_messages, UserMsg(user_input)))
  /\ pc' = "prompt" /\ event' = "interrupt"
  /\ request' =
       (IF UsesOllamaReasoning
        THEN LocalReasoningRequest(user_input)
        ELSE HostedReasoningRequest(deepseek_messages'))
  /\ UNCHANGED <<flagVars, openrouter_messages, ollama_messages, modelVars,
                 show_reasoning, localVars, countVars, streamVars,
                 labelVars>>

InterruptResponse ==
  /\ pc = "response"
  /\ openrouter_messages' =
       (IF UsesOllamaResponse THEN openrouter_messages
        ELSE Append(openrouter_messages,
                    UserMsg(CombinedPrompt(user_input, reasoning))))
  /\ pc' = "prompt" /\ event' = "interrupt"
  /\ request' =
       (IF UsesOllamaResponse
        THEN LocalResponseRequest(current_model, user_input, reasoning)
        ELSE HostedResponseRequest(current_model, openrouter_messages'))
  /\ UNCHANGED <<flagVars, deepseek_messages, ollama_messages, modelVars,
                 show_reasoning, localVars, countVars, streamVars,
                 labelVars>>

Next ==
  \/ Quit
  \/ EndOfInput
  \/ Clear
  \/ \E typed \in ModelLines : SetModel(typed)
  \/ ToggleReasoning
  \/ \E t \in UserTexts : ReadTurn(t)
  \/ \E d \in HostedReasoningStreams : OfficialReasoning(d)
  \/ OfficialReasoningFault
  \/ \E f \in LocalReasoningStreams : OllamaReasoning(f)
  \/ OllamaReasoningFault
  \/ \E r \in ResponseStreams : OpenrouterResponse(r)
  \/ OpenrouterResponseFault
  \/ \E r \in ResponseStreams : OllamaResponse(r)
  \/ OllamaResponseFault
  \/ InterruptAtPrompt
  \/ InterruptReasoning
  \/ InterruptResponse

Spec == Init /\ [][Next]_vars

\* --- turns that nobody interrupts and whose hosted reasoning stream ends
\* without a fault. A call is straight-line Python over a finite stream, so
\* a call that has started returns: each of the two calls is weakly fair.
ReasoningCall ==
  \/ OllamaReasoningFault
  \/ \E f \in LocalReasoningStreams : OllamaReasoning(f)
  \/ \E d \in HostedReasoningStreams : OfficialReasoning(d)

ResponseCall ==
  \/ \E r \in ResponseStreams : OpenrouterResponse(r)
  \/ OpenrouterResponseFault
  \/ \E r \in ResponseStreams : OllamaResponse(r)
  \/ OllamaResponseFault

TurnNext ==
  \/ Quit
  \/ EndOfInput
  \/ Clear
  \/ \E typed \in ModelLines : SetModel(typed)
  \/ ToggleReasoning
  \/ \E t \in UserTexts : ReadTurn(t)
  \/ ReasoningCall
  \/ ResponseCall

TurnSpec ==
  Init /\ [][TurnNext]_vars /\ WF_vars(ReasoningCall) /\ WF_vars(ResponseCall)

\* --------------------------------------------------- claims on the extractor
\* 0-based indices at which p occurs in s
Occurrences(s, p) ==
  {i \in 0..(Len(s) - Len(p)) : SubSeq(s, i + 1, i + Len(p)) = p}

\* s holds exactly one opening tag and exactly one closing tag, in that order
OneSpan(s) ==
  /\ Cardinality(Occurrences(s, OPEN_TAG)) = 1
  /\ Cardinality(Occurrences(s, CLOSE_TAG)) = 1
  /\ Find(s, OPEN_TAG) < Find(s, CLOSE_TAG)

\* that span, from the opening tag through the closing tag
SpanOf(s) == SubSeq(s, Find(s, OPEN_TAG) + 1, Find(s, CLOSE_TAG) + 8)

\* s holds the opening tag and, somewhere after it, the closing tag
OpenThenClose(s) ==
  /\ Contains(s, OPEN_TAG)
  /\ Contains(SliceFrom(s, Find(s, OPEN_TAG) + 7), CLOSE_TAG)

\* C1: when the streamed text holds exactly one <think>...</think> span,
\* the call returns exactly that span, however the text was cut into
\* fragments.
C1_BoundaryInvariance ==
  (rpc = "returned" /\ OneSpan(stream_text)) => result = SpanOf(stream_text)

\* C2: as soon as the delivered fragments hold the opening tag followed by
\* the closing tag, the accumulator is done (the stream is closed and the
\* call has returned), however the tags were split across fragments.
C2_CompletesOnClose ==
  (rpc # "raised" /\ OpenThenClose(Delivered)) => (acc.closed /\ rpc = "returned")

\* C3: when the opening tag was found and the streamed text holds no closing
\* tag, the text collected is the opening tag followed by everything
\* delivered after it, completion is never signalled, and at the end of the
\* stream that text is returned as it is: no closing tag added, no sentinel.
C3_NoCloseReturnsAll ==
  (acc.has_started_think /\ ~Contains(stream_text, CLOSE_TAG)) =>
    /\ ~acc.closed
    /\ acc.reasoning_content = SliceFrom(Delivered, Find(Delivered, OPEN_TAG))
    /\ rpc = "returned" =>
         /\ stream_pos = Len(stream_text)
         /\ result = SliceFrom(stream_text, Find(stream_text, OPEN_TAG))
         /\ result # SENTINEL

C3_Witness ==
  /\ rpc = "returned" /\ acc.has_started_think
  /\ ~Contains(stream_text, CLOSE_TAG)
  /\ Find(stream_text, OPEN_TAG) > 0
  /\ Len(result) > 8

\* C4: before the opening tag has been seen nothing is emitted; when the
\* streamed text holds no opening tag the accumulator never starts, never
\* signals completion, and the call returns the empty string.
C4_NoOpenNoOutput ==
  /\ ~acc.has_started_think => (acc.reasoning_content = "" /\ ~acc.closed)
  /\ ~Contains(stream_text, OPEN_TAG) =>
       /\ ~acc.has_started_think
       /\ rpc = "returned" => result = ""

C4_Witness ==
  /\ rpc = "returned" /\ stream_pos = Len(stream_text)
  /\ ~Contains(stream_text, OPEN_TAG)
  /\ Contains(stream_text, CLOSE_TAG)
  /\ result = ""

\* ----------------------------------------------------- claims on the session
Last(log) == log[Len(log)]

AssistantCount(log) ==
  Cardinality({i \in 1..Len(log) : log[i].role = "assistant"})

\* the log of the response backend that serves the current selector
ServingLog == IF UsesOllamaResponse THEN ollama_messages ELSE openrouter_messages

\* the argument the last "model ..." line gave to set_model
NewModel == Strip(SliceFrom(user_input, 6))

\* C5: once the reasoning call has returned, the user's text is the last
\* message of the reasoning-backend log, whichever strategy served it; and
\* after a successful turn that log ends with the user message followed by
\* the assistant message holding the returned response.
C5_UserLoggedBeforeReasoning ==
  /\ pc = "response" =>
       /\ deepseek_messages # <<>>
       /\ Last(deepseek_messages) = UserMsg(user_input)
  /\ event = "response_ok" =>
       /\ Len(deepseek_messages) >= 2
       /\ deepseek_messages[Len(deepseek_messages) - 1] = UserMsg(user_input)
       /\ Last(deepseek_messages) = AssistantMsg(response)

\* C6: the reasoning-backend log holds as many assistant messages as the two
\* response-backend logs together, and right after a response call that
\* completed, the returned text is the last assistant message of both the
\* reasoning-backend log and the log of the backend that served the call.
C6_DualAppend ==
  /\ AssistantCount(deepseek_messages) =
       AssistantCount(openrouter_messages) + AssistantCount(ollama_messages)
  /\ event = "response_ok" =>
       /\ deepseek_messages # <<>> /\ ServingLog # <<>>
       /\ Last(deepseek_messages) = AssistantMsg(response)
       /\ Last(ServingLog) = AssistantMsg(response)

C6_Witness ==
  /\ event = "response_ok"
  /\ AssistantCount(openrouter_messages) = 1
  /\ AssistantCount(ollama_messages) = 1
  /\ AssistantCount(deepseek_messages) = 2

\* C7: no transport fault ends the process: a fault in a reasoning call
\* leaves the turn at its response call with the sentinel as reasoning text,
\* a fault in a response call leaves the session at the prompt with the
\* sentinel as response text.
C7_FaultsNeverPropagate ==
  /\ pc # "crashed"
  /\ event = "reasoning_fault" => (pc = "response" /\ reasoning = SENTINEL)
  /\ event = "response_fault" => (pc = "prompt" /\ response = SENTINEL)

\* C8: right after a response call that failed, the sentinel is the last
\* assistant message of some message log.
C8_SentinelInHistory ==
  event = "response_fault" =>
    \E log \in {deepseek_messages, openrouter_messages, ollama_messages} :
      log # <<>> /\ Last(log) = AssistantMsg(SENTINEL)

\* C9: right after set_model(s): without the hosted-response credential and
\* without the prefix "ollama:" the selector is the local default and the
\* warning was printed; in every other case the selector is s and no warning
\* was printed.
C9_SetModelCoercion ==
  event = "set_model" =>
    IF ~has_openrouter /\ ~StartsWith(NewModel, "ollama:")
    THEN current_model = "qwen2.5:14b" /\ warned
    ELSE current_model = NewModel /\ ~warned

C9_Witness ==
  /\ event = "set_model" /\ ~has_openrouter
  /\ NewModel = "gpt-x" /\ current_model = OLLAMA_MODEL /\ warned
  /\ turns > 0

\* the messages a turn with the current locals can have appended
TurnMessages ==
  {UserMsg(user_input), UserMsg(CombinedPrompt(user_input, reasoning)),
   AssistantMsg(response)}

\* C10: the clear command leaves the three logs empty, they stay empty until
\* a turn starts, and at the end of the first turn after it every log holds
\* only that turn's messages: at most its user message and its assistant
\* message.
C10_ClearLeavesNoResidue ==
  /\ (event = "clear" \/ turns_since_clear = 0) =>
       /\ deepseek_messages = <<>>
       /\ openrouter_messages = <<>>
       /\ ollama_messages = <<>>
  /\ (turns_since_clear = 1 /\ event \in {"response_ok", "response_fault"}) =>
       /\ Len(deepseek_messages) <= 2
       /\ Len(openrouter_messages) <= 2
       /\ Len(ollama_messages) <= 1
       /\ \A log \in {deepseek_messages, openrouter_messages, ollama_messages} :
            \A i \in 1..Len(log) : log[i] \in TurnMessages

C10_Witness ==
  /\ event = "response_ok"
  /\ turns = 2 /\ turns_since_clear = 1
  /\ Len(deepseek_messages) = 2 /\ Len(openrouter_messages) = 2

\* C11: a response call goes to the hosted backend exactly when the
\* hosted-response credential is present and the selector lacks the prefix
\* "ollama:", and to the local backend otherwise; no request ever goes to
\* the hosted response backend without its credential.
C11_ResponseRouting ==
  /\ (request.call = "response"
        /\ event \in {"response_ok", "response_fault", "interrupt"}) =>
       /\ request.backend = "openrouter" <=>
            (has_openrouter /\ ~StartsWith(current_model, "ollama:"))
       /\ request.backend = "ollama" <=>
            (~has_openrouter \/ StartsWith(current_model, "ollama:"))
  /\ request.backend = "openrouter" => has_openrouter

C11_Witness ==
  /\ event = "response_ok" /\ has_openrouter
  /\ request.call = "response" /\ request.backend = "ollama"
  /\ StartsWith(current_model, "ollama:")
  /\ Len(openrouter_messages) = 2 /\ Len(ollama_messages) = 1

\* C14: a reasoning call goes to the hosted strategy exactly when the
\* hosted-reasoning credential is present and the override flag is false,
\* and to the local strategy otherwise; right after set_model(s) the flag is
\* true exactly when s starts with "ollama:deepseek"; no request ever goes
\* to the hosted reasoning backend without its credential.
C14_ReasoningRouting ==
  /\ (request.call = "reasoning"
        /\ event \in {"reasoning_ok", "reasoning_fault", "interrupt"}) =>
       /\ request.backend = "deepseek" <=>
            (has_official_deepseek /\ ~use_ollama_deepseek)
       /\ request.backend = "ollama" <=>
            (~has_official_deepseek \/ use_ollama_deepseek)
  /\ event = "set_model" =>
       (use_ollama_deepseek <=> StartsWith(NewModel, "ollama:deepseek"))
  /\ request.backend = "deepseek" => has_official_deepseek

C14_Witness ==
  /\ event = "reasoning_ok" /\ has_official_deepseek /\ use_ollama_deepseek
  /\ request.call = "reasoning" /\ request.backend = "ollama"
  /\ Len(deepseek_messages) = 2

IsPrefix(a, b) == Len(a) <= Len(b) /\ SubSeq(b, 1, Len(a)) = a

ReasoningEvents == {"reasoning_ok", "reasoning_fault"}
ResponseEvents == {"response_ok", "response_fault"}

C15_MalformedSkipped ==
  line \in MalformedKinds => (rpc # "raised" /\ result # SENTINEL)

\* C16: every step but the clear command keeps each log's contents as a
\* prefix of its new contents, and the clear command leaves all three logs
\* empty in the one step it takes.
C16_AppendOnly ==
  [][ IF event' = "clear"
      THEN /\ deepseek_messages' = <<>>
           /\ openrouter_messages' = <<>>
           /\ ollama_messages' = <<>>
      ELSE /\ IsPrefix(deepseek_messages, deepseek_messages')
           /\ IsPrefix(openrouter_messages, openrouter_messages')
           /\ IsPrefix(ollama_messages, ollama_messages') ]_vars

C16_Witness ==
  /\ event = "response_ok" /\ request.backend = "openrouter"
  /\ Len(deepseek_messages) = 4 /\ Len(openrouter_messages) = 4

\* C17: the messages of every request are the log of the backend it goes
\* to, as the log stood when the request was sent: the whole log for a
\* hosted call, and at least the log as a prefix for a local call.
C17_HistoryReplay ==
  /\ (event \in ReasoningEvents /\ request.backend = "deepseek") =>
       request.messages = deepseek_messages
  /\ (event = "response_ok" /\ request.backend = "openrouter") =>
       request.messages =
         SubSeq(openrouter_messages, 1, Len(openrouter_messages) - 1)
  /\ (event \in ReasoningEvents /\ request.backend = "ollama") =>
       IsPrefix(ollama_messages, request.messages)
  /\ (event = "response_ok" /\ request.backend = "ollama") =>
       IsPrefix(SubSeq(ollama_messages, 1, Len(ollama_messages) - 1),
                request.messages)

\* C18: a call in flight ends only by returning or raising, never by an
\* interrupt: the step that leaves the reasoning or the response stage is
\* the call's own; and the session ends only by the quit command or
\* end-of-input.
C18_InterruptNeverAborts ==
  [][ /\ pc = "reasoning" => event' \in ReasoningEvents
      /\ pc = "response" => event' \in ResponseEvents
      /\ pc' = "exit" => event' \in {"quit", "eof"} ]_vars

\* C19: only set_model changes the selector and the override flag, and it
\* leaves the logs and the visibility flag alone; the toggle changes the
\* visibility flag and nothing else of the session state; clear and the
\* steps of a turn change nothing but the logs.
C19_CommandFrames ==
  [][ /\ (current_model' # current_model
            \/ use_ollama_deepseek' # use_ollama_deepseek) =>
           event' = "set_model"
      /\ event' = "set_model" =>
           /\ deepseek_messages' = deepseek_messages
           /\ openrouter_messages' = openrouter_messages
           /\ ollama_messages' = ollama_messages
           /\ show_reasoning' = show_reasoning
      /\ event' = "toggle" =>
           /\ show_reasoning' = ~show_reasoning
           /\ deepseek_messages' = deepseek_messages
           /\ openrouter_messages' = openrouter_messages
           /\ ollama_messages' = ollama_messages
           /\ current_model' = current_model
           /\ use_ollama_deepseek' = use_ollama_deepseek
      /\ event' \in {"clear", "read", "interrupt"} \cup ReasoningEvents
                      \cup ResponseEvents =>
           /\ show_reasoning' = show_reasoning
           /\ current_model' = current_model
           /\ use_ollama_deepseek' = use_ollama_deepseek
      /\ (has_official_deepseek' = has_official_deepseek
            /\ has_openrouter' = has_openrouter) ]_vars

C19_Witness ==
  /\ event = "toggle" /\ ~show_reasoning /\ use_ollama_deepseek
  /\ has_official_deepseek
  /\ current_model = "ollama:deepseek-r1:14b"
  /\ Len(deepseek_messages) = 2

====
